---- MODULE Spec2Model ----
(***************************************************************************)
(* Lineup optimisation and rotation simulation of src/src/optimization.py. *)
(*                                                                         *)
(* Numbers.  The program computes in floats; the model computes the same   *)
(* quantities exactly, in fixed point:                                     *)
(*   - minutes, ratings, the points cap and the weights are integers;      *)
(*   - an equity target game_minutes*4/len(available) is kept multiplied   *)
(*     by L = len(available), so that it is an integer;                    *)
(*   - a fatigue factor is kept in thousandths (700..1000);                *)
(*   - a value of the impact model is a pair <<e18, u>> that stands for    *)
(*     e18 * 10^18 + u, so that values below the selector's initial        *)
(*     best_score of -1e18 can be written down;                            *)
(*   - an adjusted score is kept multiplied by 4000 * L, again as a pair.  *)
(* Players are the identifiers 1..MaxRoster.                               *)
(***************************************************************************)
EXTENDS Integers, Sequences, FiniteSets, TLC

\* ---------------------------------------------------------------- bounds
MaxRoster == 6
MaxGame == 3
MaxFairGame == 6

\* ------------------------------------------------------ program constants
LineupSize == 4
FatigueFloor == 700
BestScoreInitE18 == -1

\* Python's None, where a list or a tuple may stand instead
None == <<"None">>
\* no value yet: before the first call of pick_best_lineup
Unset == <<"unset">>
\* no exception
Ok == "ok"
Sep == ", "

Players == 1..MaxRoster

VARIABLES
  pc,                     \* position in simulate_rotation_plan
  roster, rating_map, injured,
  game_minutes, block_minutes, max_points,
  model, is_home, fatigue_alpha,
  min_minutes_per_player, max_minutes_per_player,
  equity_lambda, overuse_lambda,
  available, target, max_minutes, minutes_played,
  valid_lineups, rows, t, n_blocks, k,
  best,                   \* what the last call of pick_best_lineup returned
  error                   \* the exception that ended the call, or None

vars == <<pc, roster, rating_map, injured, game_minutes, block_minutes,
          max_points, model, is_home, fatigue_alpha, min_minutes_per_player,
          max_minutes_per_player, equity_lambda, overuse_lambda, available,
          target, max_minutes, minutes_played, valid_lineups, rows, t,
          n_blocks, k, best, error>>

inputs == <<roster, rating_map, injured, game_minutes, block_minutes,
            max_points, model, is_home, fatigue_alpha, min_minutes_per_player,
            max_minutes_per_player, equity_lambda, overuse_lambda>>

\* ---------------------------------------------------------------- helpers
Max(a, b) == IF a >= b THEN a ELSE b
Min(a, b) == IF a <= b THEN a ELSE b
Abs(a) == IF a >= 0 THEN a ELSE -a
Range(s) == {s[i] : i \in DOMAIN s}

RECURSIVE SumSeq(_)
SumSeq(s) == IF s = <<>> THEN 0 ELSE Head(s) + SumSeq(Tail(s))

\* int(a / b): the division rounded down
FloorDiv(a, b) == a \div b

\* int(np.ceil(a / b)) for b > 0
CeilDiv(a, b) == IF a <= 0 THEN -((-a) \div b) ELSE (a + b - 1) \div b

\* sep.join(s): the members of s with the separator between neighbours
RECURSIVE Join(_, _)
Join(sep, s) ==
  IF s = <<>> THEN <<>>
  ELSE IF Len(s) = 1 THEN <<Head(s)>>
  ELSE <<Head(s), sep>> \o Join(sep, Tail(s))

\* itertools.combinations(s, r): the r-length subsequences of s, in
\* lexicographic order of their positions
RECURSIVE combinations(_, _)
combinations(s, r) ==
  IF r = 0 THEN << <<>> >>
  ELSE IF Len(s) < r THEN <<>>
  ELSE LET withHead == combinations(Tail(s), r - 1)
       IN  [i \in DOMAIN withHead |-> <<Head(s)>> \o withHead[i]]
           \o combinations(Tail(s), r)

\* ------------------------------------------------------------ impact model
\* A fitted Ridge model is linear: predict(row) = intercept_ + coef_ . row.
\* The row built by lineup_score_from_model has 1 in the columns of the
\* lineup's players, the total rating, is_home, and 0 in every opponent column.
Val(e, u) == <<e, u>>
E18(v) == v[1]
Units(v) == v[2]
Greater(a, b) == E18(a) > E18(b) \/ (E18(a) = E18(b) /\ Units(a) > Units(b))

predict(m, lineup, total_rating, home) ==
  Val(E18(m.intercept),
      Units(m.intercept)
        + SumSeq([i \in DOMAIN lineup |-> m.coef[lineup[i]]])
        + m.rating_coef * total_rating
        + m.home_coef * home)

\* ------------------------------------------------------------------ fatigue
\* round(1000 * exp(-x / 100)) for x = 0..36; exp(-0.36) is the first value
\* below the floor of 0.70, and exp is decreasing: a larger x is given the
\* last entry, which fatigue_factor replaces by the floor all the same
ExpTable ==
  <<1000, 990, 980, 970, 961, 951, 942, 932, 923, 914, 905, 896, 887, 878,
    869, 861, 852, 844, 835, 827, 819, 811, 803, 795, 787, 779, 771, 763,
    756, 748, 741, 733, 726, 719, 712, 705, 698>>
ExpNeg(x) == IF x < Len(ExpTable) THEN ExpTable[x + 1] ELSE ExpTable[Len(ExpTable)]

\* alpha in hundredths per minute; the factor in thousandths
fatigue_factor(minutes, alpha) == Max(FatigueFloor, ExpNeg(alpha * minutes))

\* ------------------------------------------------------------------ scoring
\* dict.get(key, default)
Get(d, key, default) == IF key \in DOMAIN d THEN d[key] ELSE default

\* the scale of the equity targets: len(available), 1 when nobody is available
L == Max(1, Len(available))
\* the scale of an adjusted score
ScoreScale == 4000 * L

\* the sum of the ratings of a lineup's players
TotalRating(lineup, ratings) == SumSeq([i \in DOMAIN lineup |-> ratings[lineup[i]]])

\* abs(minutes - target) * L of one player; nothing without a target
EquityDiff(p, minutes, eq_target) ==
  IF p \in DOMAIN eq_target THEN Abs(Get(minutes, p, 0) * L - eq_target[p]) ELSE 0

\* the minutes of one player beyond the cap; nothing without a cap
Overuse(p, minutes, mx_minutes) ==
  IF p \in DOMAIN mx_minutes THEN Max(0, Get(minutes, p, 0) - mx_minutes[p]) ELSE 0

lineup_score_from_model(m, lineup, ratings, home, alpha, minutes, eq_target, eq_lambda, ov_lambda, mx_minutes) ==
  LET total_rating == TotalRating(lineup, ratings)
      base == predict(m, lineup, total_rating, home)
      \* np.mean(f_list) * len(lineup), in thousandths
      f_sum == SumSeq([i \in DOMAIN lineup |->
                         fatigue_factor(Get(minutes, lineup[i], 0), alpha)])
      eq_pen == eq_lambda
                  * SumSeq([i \in DOMAIN lineup |->
                              EquityDiff(lineup[i], minutes, eq_target)])
      ov_pen == ov_lambda
                  * SumSeq([i \in DOMAIN lineup |->
                              Overuse(lineup[i], minutes, mx_minutes)])
  IN  Val(E18(base) * f_sum * L,
          Units(base) * f_sum * L - 4000 * eq_pen - 4000 * L * ov_pen)

\* -------------------------------------------------------------- enumeration
\* rating_map[p] raises KeyError for a player without a rating, and the sum of
\* a combination is computed before the cap is tested
Unrated(combo, ratings) == \E i \in DOMAIN combo : combo[i] \notin DOMAIN ratings

\* every combination kept: the cap is not tested
EnumerateNoCap(players, ratings, cap) ==
  LET combos == combinations(players, LineupSize)
  IN  IF \E i \in DOMAIN combos : Unrated(combos[i], ratings)
      THEN [raised |-> "KeyError", value |-> <<>>]
      ELSE [raised |-> Ok,
            value |-> [i \in DOMAIN combos |-> <<combos[i], TotalRating(combos[i], ratings)>>]]

\* total < max_points instead of total <= max_points
EnumerateStrict(players, ratings, cap) ==
  LET combos == combinations(players, LineupSize)
  IN  IF \E i \in DOMAIN combos : Unrated(combos[i], ratings)
      THEN [raised |-> "KeyError", value |-> <<>>]
      ELSE [raised |-> Ok,
            value |-> LET kept == SelectSeq(combos, LAMBDA c : TotalRating(c, ratings) < cap)
                      IN  [i \in DOMAIN kept |-> <<kept[i], TotalRating(kept[i], ratings)>>]]

\* rating_map.get(p, 0) instead of rating_map[p]: no rating counts as 0
EnumerateDefaultRating(players, ratings, cap) ==
  LET combos == combinations(players, LineupSize)
      total(combo) == SumSeq([i \in DOMAIN combo |-> Get(ratings, combo[i], 0)])
      kept == SelectSeq(combos, LAMBDA c : total(c) <= cap)
  IN  [raised |-> Ok, value |-> [i \in DOMAIN kept |-> <<kept[i], total(kept[i])>>]]

enumerate_valid_lineups(players, ratings, cap) ==
  LET combos == combinations(players, LineupSize)
      total(combo) == TotalRating(combo, ratings)
  IN  IF \E i \in DOMAIN combos : Unrated(combos[i], ratings)
      THEN [raised |-> "KeyError", value |-> <<>>]
      ELSE [raised |-> Ok,
            value |-> LET kept == SelectSeq(combos, LAMBDA c : total(c) <= cap)
                      IN  [i \in DOMAIN kept |-> <<kept[i], total(kept[i])>>]]

\* ---------------------------------------------------------------- selection
\* the loop of pick_best_lineup from candidate i on, with the best so far
\* scores[i] is the adjusted score of candidate i
RECURSIVE PickLoop(_, _, _, _)
PickLoop(cands, scores, i, acc) ==
  IF i > Len(cands) THEN acc.best
  ELSE LET lineup == cands[i][1]
           total == cands[i][2]
           score == scores[i]
       IN  IF Greater(score, acc.best_score)
           THEN PickLoop(cands, scores, i + 1,
                         [best |-> <<lineup, total, score>>, best_score |-> score])
           ELSE PickLoop(cands, scores, i + 1, acc)

\* best_score = -1e18, on the scale of the scores
BestScoreInit == Val(BestScoreInitE18 * ScoreScale, 0)

CandidateScores(m, cands, ratings, home, alpha, minutes, eq_target, eq_lambda, ov_lambda, mx_minutes) ==
  [i \in DOMAIN cands |->
     lineup_score_from_model(m, cands[i][1], ratings, home, alpha, minutes,
                             eq_target, eq_lambda, ov_lambda, mx_minutes)]

pick_best_lineup(m, cands, ratings, home, alpha, minutes, eq_target, eq_lambda, ov_lambda, mx_minutes) ==
  PickLoop(cands,
           CandidateScores(m, cands, ratings, home, alpha, minutes, eq_target,
                           eq_lambda, ov_lambda, mx_minutes),
           1,
           [best |-> None, best_score |-> BestScoreInit])

\* ------------------------------------------------------------------- inputs
Prefix(n) == [i \in 1..n |-> i]

\* impact models: a constant one, one that values later players and a higher
\* total rating, and one whose every prediction is about -2e18
Models ==
  { [intercept |-> Val(0, 0), coef |-> [p \in Players |-> 0],
     rating_coef |-> 0, home_coef |-> 0],
    [intercept |-> Val(0, -1), coef |-> [p \in Players |-> p],
     rating_coef |-> 1, home_coef |-> 1],
    [intercept |-> Val(-2, 0), coef |-> [p \in Players |-> 0],
     rating_coef |-> 0, home_coef |-> 0] }

\* rating lookups: a player is rated 3 or 1, and player 3 may have no entry
RatingMaps(r) ==
  { [p \in Range(r) \ missing |-> IF p \in high THEN 3 ELSE 1] :
      high \in SUBSET {1, 2, 3}, missing \in {{}, {3}} }

InitLocals ==
  /\ pc = "start"
  /\ available = <<>>
  /\ target = <<>>
  /\ max_minutes = <<>>
  /\ minutes_played = <<>>
  /\ valid_lineups = None
  /\ rows = <<>>
  /\ t = 0
  /\ n_blocks = 0
  /\ k = 0
  /\ best = Unset
  /\ error = Ok

Init ==
  /\ roster \in {Prefix(n) : n \in 3..MaxRoster}
  /\ injured \in {{}, {2}}
  /\ rating_map \in RatingMaps(roster)
  /\ max_points \in {4, 8}
  /\ game_minutes \in 1..MaxGame
  /\ block_minutes \in {1, 2}
  /\ model \in Models
  /\ is_home \in {0}
  /\ fatigue_alpha \in {0, 2}
  /\ min_minutes_per_player \in {0}
  /\ max_minutes_per_player \in {1}
  /\ equity_lambda \in {0, 1}
  /\ overuse_lambda \in {0, 1}
  /\ InitLocals

\* ------------------------------------------------- simulate_rotation_plan
\* lines 161-176: the eligible players, their targets, caps and minutes
Setup ==
  /\ pc = "start"
  /\ LET avail == SelectSeq(roster, LAMBDA p : p \notin injured)
         n == Len(avail)
     IN  /\ available' = avail
         /\ target' = IF n > 0
                      THEN [p \in Range(avail) |->
                              Max(min_minutes_per_player * n, game_minutes * 4)]
                      ELSE <<>>
         /\ max_minutes' = [p \in Range(avail) |-> max_minutes_per_player]
         /\ minutes_played' = [p \in Range(avail) |-> 0]
  /\ pc' = "enumerate"
  /\ UNCHANGED <<inputs, valid_lineups, rows, t, n_blocks, k, best, error>>

\* lines 178-182: the one enumeration, then the loop's initial values
Enumerate ==
  /\ pc = "enumerate"
  /\ \E r \in {enumerate_valid_lineups(available, rating_map, max_points)} :
         IF r.raised # Ok
         THEN /\ error' = r.raised
              /\ pc' = "failed"
              /\ UNCHANGED <<valid_lineups, rows, t, n_blocks>>
         ELSE /\ valid_lineups' = r.value
              /\ rows' = <<>>
              /\ t' = 0
              /\ n_blocks' = CeilDiv(game_minutes, block_minutes)
              /\ pc' = "loop"
              /\ UNCHANGED error
  /\ UNCHANGED <<inputs, available, target, max_minutes, minutes_played, k, best>>

\* a loop over minutes_played instead of lineup: everybody is credited
CreditEveryone(minutes, lineup, amount) == [p \in DOMAIN minutes |-> minutes[p] + amount]

\* a loop over lineup[1:] instead of lineup
CreditSkipFirst(minutes, lineup, amount) ==
  [p \in DOMAIN minutes |->
     minutes[p] + amount * Cardinality({i \in DOMAIN lineup : i > 1 /\ lineup[i] = p})]

\* the credit clamped to what is left of the game, like end_min
CreditClamped(minutes, lineup, amount) ==
  [p \in DOMAIN minutes |->
     minutes[p] + Min(amount, game_minutes - t)
                    * Cardinality({i \in DOMAIN lineup : lineup[i] = p})]

\* lines 200-201: minutes_played[p] += block_minutes for every p of the lineup
Credit(minutes, lineup, amount) ==
  [p \in DOMAIN minutes |->
     minutes[p] + amount * Cardinality({i \in DOMAIN lineup : lineup[i] = p})]

\* lines 203-210: the row appended for block number kk (from 0) starting at tt
ScheduleEntry(kk, tt, lineup, total, score) ==
  [block |-> kk + 1,
   start_min |-> tt,
   end_min |-> Min(game_minutes, tt + block_minutes),
   lineup |-> Join(Sep, lineup),
   rating |-> total,
   score |-> score]

\* lines 184-212: one iteration of the loop over the blocks
Block ==
  /\ pc = "loop"
  /\ k < n_blocks
  /\ \E b \in {pick_best_lineup(model, valid_lineups, rating_map, is_home,
                               fatigue_alpha, minutes_played, target,
                               equity_lambda, overuse_lambda, max_minutes)} :
         /\ best' = b
         /\ IF b = None
            THEN \* lineup, total, score = None
                 /\ error' = "TypeError"
                 /\ pc' = "failed"
                 /\ UNCHANGED <<minutes_played, rows, t, k>>
            ELSE LET lineup == b[1]
                     total == b[2]
                     score == b[3]
                 IN  /\ minutes_played' = Credit(minutes_played, lineup, block_minutes)
                     /\ rows' = Append(rows, ScheduleEntry(k, t, lineup, total, score))
                     /\ t' = t + block_minutes
                     /\ k' = k + 1
                     /\ UNCHANGED <<pc, error>>
  /\ UNCHANGED <<inputs, available, target, max_minutes, valid_lineups, n_blocks>>

\* lines 214-215: the schedule and the minutes are returned
Return ==
  /\ pc = "loop"
  /\ k = n_blocks
  /\ pc' = "done"
  /\ UNCHANGED <<inputs, available, target, max_minutes, minutes_played,
                 valid_lineups, rows, t, n_blocks, k, best, error>>

Next == Setup \/ Enumerate \/ Block \/ Return

Spec == Init /\ [][Next]_vars

\* Runs with a fairness weight, a constant impact model, no fatigue, a cap on
\* the minutes that nobody reaches, and at least as many blocks as players
InitEquity ==
  /\ roster \in {Prefix(n) : n \in LineupSize..MaxRoster}
  /\ injured \in {{}, {2}}
  /\ rating_map \in {m \in RatingMaps(roster) : DOMAIN m = Range(roster)}
  /\ max_points \in {4, 8}
  /\ game_minutes \in MaxRoster..MaxFairGame
  /\ block_minutes = 1
  /\ model = [intercept |-> Val(0, 0), coef |-> [p \in Players |-> 0],
              rating_coef |-> 0, home_coef |-> 0]
  /\ is_home \in {0, 1}
  /\ fatigue_alpha = 0
  /\ min_minutes_per_player = 0
  /\ max_minutes_per_player = 2 * MaxFairGame
  /\ equity_lambda \in {1, 2}
  /\ overuse_lambda \in {0, 1}
  /\ InitLocals

SpecEquity == InitEquity /\ [][Next]_vars

\* ================================================================= claims
\* the players of a row's "lineup" text: what stands between the separators
LineupOf(row) == [i \in 1..((Len(row.lineup) + 1) \div 2) |-> row.lineup[2 * i - 1]]
\* the number of rows so far whose lineup has player p
BlocksPlayed(p) == Cardinality({i \in DOMAIN rows : p \in Range(LineupOf(rows[i]))})
RECURSIVE SumOver(_, _)
SumOver(f, S) ==
  IF S = {} THEN 0 ELSE LET x == CHOOSE y \in S : TRUE IN f[x] + SumOver(f, S \ {x})
TotalCredited == SumOver(minutes_played, DOMAIN minutes_played)
Distinct(s) == \A i, j \in DOMAIN s : i # j => s[i] # s[j]
Started == pc # "start"
Truncated == game_minutes % block_minutes # 0

\* C1: minutes are accounted exactly.  Every eligible player starts at 0
\* minutes; after k block steps each eligible player's minutes are
\* block_minutes times the number of blocks that selected the player, and the
\* minutes of all players sum to 4 * block_minutes * k, which is
\* 4 * block_minutes * n_blocks when the schedule is returned.
C1_MinutesExact ==
  Started =>
    /\ DOMAIN minutes_played = Range(available)
    /\ Len(rows) = k
    /\ (k = 0 => \A p \in Range(available) : minutes_played[p] = 0)
    /\ \A p \in Range(available) : minutes_played[p] = block_minutes * BlocksPlayed(p)
    /\ TotalCredited = 4 * block_minutes * k
    /\ (pc = "done" => TotalCredited = 4 * block_minutes * n_blocks)

\* a returned schedule of several blocks in which one player sat out a block
\* that another played
C1_Witness ==
  /\ pc = "done"
  /\ n_blocks >= 2
  /\ \E p, q \in Range(available) : 0 < minutes_played[p] /\ minutes_played[p] < minutes_played[q]

\* C2: every schedule entry is a legal lineup: exactly 4 distinct players of
\* the roster, none injured, with summed rating <= max_points, and the entry's
\* rating is that sum.
C2_LegalLineups ==
  \A i \in DOMAIN rows :
    LET lineup == LineupOf(rows[i])
    IN  /\ Len(lineup) = 4
        /\ Distinct(lineup)
        /\ Range(lineup) \subseteq Range(roster)
        /\ Range(lineup) \cap injured = {}
        /\ Range(lineup) \subseteq DOMAIN rating_map
        /\ TotalRating(lineup, rating_map) <= max_points
        /\ rows[i].rating = TotalRating(lineup, rating_map)

\* a schedule entry made while a player was injured and while some
\* combination of eligible players was over the cap
C2_Witness ==
  /\ rows # <<>>
  /\ injured \cap Range(roster) # {}
  /\ Len(valid_lineups) < Len(combinations(available, 4))

\* C3: enumerate_valid_lineups returns exactly the 4-element subsets of the
\* roster whose ratings sum to at most the cap: each returned lineup has 4
\* distinct members of the roster and a sum <= cap, none is returned twice,
\* every qualifying subset is returned, and each reported total is the sum of
\* the members' ratings.
SetSum(S) == SumOver(rating_map, S)
ValidSubsets ==
  {S \in SUBSET Range(available) : Cardinality(S) = 4 /\ SetSum(S) <= max_points}
C3_EnumerationExact ==
  valid_lineups # None =>
    /\ \A i \in DOMAIN valid_lineups :
         LET lineup == valid_lineups[i][1]
         IN  /\ Len(lineup) = 4
             /\ Distinct(lineup)
             /\ Range(lineup) \in ValidSubsets
             /\ valid_lineups[i][2] = SetSum(Range(lineup))
    /\ \A i, j \in DOMAIN valid_lineups :
         i # j => Range(valid_lineups[i][1]) # Range(valid_lineups[j][1])
    /\ \A S \in ValidSubsets : \E i \in DOMAIN valid_lineups : Range(valid_lineups[i][1]) = S
    /\ Len(valid_lineups) = Cardinality(ValidSubsets)

\* an enumeration that kept a lineup whose sum is exactly the cap, kept
\* several lineups and dropped at least one combination
C3_Witness ==
  /\ valid_lineups # None
  /\ Len(valid_lineups) >= 2
  /\ Len(valid_lineups) < Len(combinations(available, 4))
  /\ \E i \in DOMAIN valid_lineups : valid_lineups[i][2] = max_points

\* C4: with fewer than 4 eligible players the simulation fails with an
\* InsufficientRosterError before any enumeration is attempted, and returns no
\* schedule and no minutes map.
C4_InsufficientRoster ==
  (Started /\ Len(available) < 4) =>
    /\ valid_lineups = None
    /\ pc # "done"
    /\ (pc = "failed" => error = "InsufficientRosterError")

\* C5: no candidate lineup is surfaced as a failure: pick_best_lineup called
\* with an empty valid_lineups returns no value, and a simulation with at least
\* 4 eligible players but no lineup within max_points ends with a
\* NoValidLineupError instead of a schedule.
C5_NoValidLineupSurfaced ==
  /\ (valid_lineups = <<>> => best = Unset)
  /\ (Len(available) >= 4 /\ valid_lineups = <<>> /\ pc \in {"failed", "done"}) =>
       (pc = "failed" /\ error = "NoValidLineupError")

\* C6: for a non-empty candidate sequence and a fixed scoring snapshot,
\* pick_best_lineup returns (lineup, total_rating, adjusted_score) of the
\* earliest candidate whose adjusted score is the maximum over all candidates,
\* whatever the scores are.
SnapshotScores ==
  CandidateScores(model, valid_lineups, rating_map, is_home, fatigue_alpha,
                  minutes_played, target, equity_lambda, overuse_lambda, max_minutes)
IsMaximum(scores, i) == \A j \in DOMAIN scores : ~Greater(scores[j], scores[i])
EarliestMaximum(scores) ==
  CHOOSE i \in DOMAIN scores :
    IsMaximum(scores, i) /\ \A j \in 1..(i - 1) : ~IsMaximum(scores, j)
C6_EarliestMaximum ==
  [][(pc = "loop" /\ k < n_blocks /\ valid_lineups # <<>>) =>
       LET i == EarliestMaximum(SnapshotScores)
       IN  best' = <<valid_lineups[i][1], valid_lineups[i][2], SnapshotScores[i]>>]_vars

\* C7: a simulation that does not fail makes exactly
\* n_blocks = ceil(game_minutes / block_minutes) block steps, in order: entry i
\* has block = i, start_min = (i-1) * block_minutes < game_minutes and
\* end_min = min(game_minutes, i * block_minutes); the entries are contiguous
\* from 0 and the last one ends at game_minutes.
C7_LinearProgression ==
  pc \in {"loop", "done"} =>
    /\ (n_blocks - 1) * block_minutes < game_minutes
    /\ game_minutes <= n_blocks * block_minutes
    /\ Len(rows) <= n_blocks
    /\ \A i \in DOMAIN rows :
         /\ rows[i].block = i
         /\ rows[i].start_min = (i - 1) * block_minutes
         /\ rows[i].start_min < game_minutes
         /\ rows[i].end_min = Min(game_minutes, i * block_minutes)
         /\ rows[i].start_min = IF i = 1 THEN 0 ELSE rows[i - 1].end_min
    /\ (pc = "done" =>
          /\ Len(rows) = n_blocks
          /\ rows[n_blocks].end_min = game_minutes)

\* a returned schedule of several blocks whose last block is cut short
C7_Witness == pc = "done" /\ Len(rows) >= 2 /\ Truncated

\* C8: enumeration fails with a lookup error whenever a roster member has no
\* entry in the rating lookup, for a roster of any size.
Enumerated == pc \in {"loop", "done"} \/ (pc = "failed" /\ error # Ok)
SomeoneUnrated == \E p \in Range(available) : p \notin DOMAIN rating_map
C8_AnyRosterSize ==
  (Enumerated /\ SomeoneUnrated) => (error = "KeyError" /\ valid_lineups = None)

\* C8, amended: enumeration fails with a lookup error whenever a roster of at
\* least 4 members has a member with no entry in the rating lookup; a roster of
\* fewer than 4 members yields the empty list, whatever the lookup holds.
C8_FourOrMore ==
  Enumerated =>
    /\ (Len(available) >= 4 /\ SomeoneUnrated) =>
         (pc = "failed" /\ error = "KeyError" /\ valid_lineups = None)
    /\ Len(available) < 4 => valid_lineups = <<>>
    /\ error = "KeyError" => SomeoneUnrated

\* an enumeration over more than 4 players, one without a rating, that raised
C8_Witness ==
  /\ pc = "failed"
  /\ error = "KeyError"
  /\ Len(available) > 4
  /\ Cardinality({p \in Range(available) : p \notin DOMAIN rating_map}) = 1

\* C9: when game_minutes is not a multiple of block_minutes the last entry
\* ends at game_minutes and is shorter than block_minutes, its 4 players are
\* still credited a full block, and the credited minutes of all players exceed
\* 4 * game_minutes; when it is a multiple they equal 4 * game_minutes.
C9_TruncatedBlock ==
  pc = "done" =>
    LET last == rows[Len(rows)]
    IN  IF Truncated
        THEN /\ last.end_min = game_minutes
             /\ last.end_min - last.start_min < block_minutes
             /\ Cardinality(Range(LineupOf(last))) = 4
             /\ \A p \in Range(LineupOf(last)) :
                  minutes_played[p] = block_minutes * BlocksPlayed(p)
             /\ TotalCredited = 4 * block_minutes * n_blocks
             /\ TotalCredited > 4 * game_minutes
        ELSE /\ last.end_min - last.start_min = block_minutes
             /\ TotalCredited = 4 * game_minutes

\* a returned schedule whose last block is cut short
C9_Witness == pc = "done" /\ Truncated /\ TotalCredited > 4 * game_minutes

\* C10: with equity_lambda > 0, a constant impact model, no fatigue, nobody
\* above the cap on minutes and at least as many blocks as eligible players,
\* every eligible player is selected in at least one block, and at the end of
\* the run every eligible player is closer to the equity target than at the
\* start.
C10_EveryoneApproachesTarget ==
  pc = "done" =>
    \A p \in Range(available) :
      /\ BlocksPlayed(p) >= 1
      /\ Abs(minutes_played[p] * L - target[p]) < Abs(0 * L - target[p])

\* C11: a block step changes only the minutes of the 4 players of the lineup
\* selected in that block, each by exactly block_minutes, and appends exactly
\* one schedule entry, which names that lineup; the minutes of every other
\* player, the equity targets, the max-minutes map, the rating lookup and the
\* list of valid lineups are unchanged, earlier entries are not modified, and
\* a step whose selection returned no lineup leaves the minutes as they were.
C11_BlockFrame ==
  [][(pc = "loop" /\ k < n_blocks) =>
       /\ target' = target
       /\ max_minutes' = max_minutes
       /\ rating_map' = rating_map
       /\ valid_lineups' = valid_lineups
       /\ DOMAIN minutes_played' = DOMAIN minutes_played
       /\ IF best' = None
          THEN minutes_played' = minutes_played /\ rows' = rows
          ELSE LET lineup == best'[1]
               IN  /\ Cardinality(Range(lineup)) = 4
                   /\ Range(lineup) \subseteq DOMAIN minutes_played
                   /\ \A p \in Range(lineup) :
                        minutes_played'[p] = minutes_played[p] + block_minutes
                   /\ \A p \in DOMAIN minutes_played \ Range(lineup) :
                        minutes_played'[p] = minutes_played[p]
                   /\ Len(rows') = Len(rows) + 1
                   /\ SubSeq(rows', 1, Len(rows)) = rows
                   /\ LineupOf(rows'[Len(rows')]) = lineup]_vars

\* after a later block step, a player who played an earlier block and sat out
\* the last one
C11_Witness ==
  /\ pc = "loop"
  /\ Len(rows) >= 2
  /\ \E p \in Range(available) :
       /\ p \notin Range(LineupOf(rows[Len(rows)]))
       /\ minutes_played[p] > 0

====
